---- MODULE Spec2Model ----
(***************************************************************************)
(* A model of tcpdial (src/tcp.c): protocol lookup, socket creation, name  *)
(* resolution and the connect loop, together with the parts of the host    *)
(* the function talks to: the protocol database and the static protoent    *)
(* buffer of getprotobyname(3), the kernel's descriptor table, the         *)
(* resolver and the heap that holds the resolved address list.             *)
(*                                                                         *)
(* Error numbers are the Linux/glibc values of <errno.h> and <netdb.h>.    *)
(* connect(2) follows Linux: an AF_INET socket rejects a sockaddr of       *)
(* another family with EAFNOSUPPORT, and a socket whose connect failed can *)
(* be connected again.                                                     *)
(***************************************************************************)
EXTENDS Integers, Sequences, FiniteSets, TLC

\* ---------------------------------------------------------------- bounds
MaxCands == 3        \* longest resolved address list of a single call
MaxCandsConc == 1    \* longest resolved address list of concurrent calls
NumThreads == 2      \* threads that may call tcpdial

Threads == 1..NumThreads

\* ------------------------------------------------- <errno.h>, <netdb.h>
ENOMEM == 12
EACCES == 13
EINVAL == 22
EMFILE == 24
ENOPROTOOPT == 92
EPROTONOSUPPORT == 93
EAFNOSUPPORT == 97
ENETDOWN == 100
ENETUNREACH == 101
ENOTCONN == 107
ETIMEDOUT == 110
ECONNREFUSED == 111
EBADF == 9
EISCONN == 106

EAI_NONAME == 0 - 2
EAI_AGAIN == 0 - 3
EAI_FAIL == 0 - 4
EAI_FAMILY == 0 - 6
EAI_SERVICE == 0 - 8
EAI_MEMORY == 0 - 10
EAI_SYSTEM == 0 - 11
EAI_SOCKTYPE == 0 - 7

IPPROTO_TCP == 6
NULL == 0

\* ------------------------------------------------------------ the host
\* /etc/protocols, with and without the tcp entry.
ProtocolsWithTcp ==
    << [p_name |-> "ip", p_proto |-> 0], [p_name |-> "icmp", p_proto |-> 1],
       [p_name |-> "tcp", p_proto |-> IPPROTO_TCP] >>
ProtocolsWithoutTcp ==
    << [p_name |-> "ip", p_proto |-> 0], [p_name |-> "icmp", p_proto |-> 1] >>

ConnectErrors == {ECONNREFUSED, ETIMEDOUT}
Families == {"AF_INET", "AF_INET6"}
\* A resolved address: its family and what a connect to it answers
\* (0: a listener accepts the connection).
Addr == [family : Families, answer : {0} \cup ConnectErrors]
Listening(a) == a.answer = 0

AddrLists(n) == UNION {[1..k -> Addr] : k \in 1..n}

GaiFailures ==
    {[rc |-> c, syserr |-> 0] :
        c \in {EAI_AGAIN, EAI_FAIL, EAI_MEMORY, EAI_NONAME, EAI_SERVICE, EAI_FAMILY}}
    \cup {[rc |-> EAI_SYSTEM, syserr |-> e] : e \in {EMFILE, EACCES}}
GaiSuccess == [rc |-> 0, syserr |-> 0]

\* What the host answers to one call: the caller's value of *conn, the
\* outcome of socket(2), the outcome of getaddrinfo(3) and the addresses
\* the name resolves to.
Envs(n, conn0s, sockOutcomes) ==
    {[conn0 |-> c, sock |-> s, gai |-> g, addrs |-> << >>] :
        c \in conn0s, s \in sockOutcomes, g \in GaiFailures}
    \cup {[conn0 |-> c, sock |-> s, gai |-> GaiSuccess, addrs |-> l] :
        c \in conn0s, s \in sockOutcomes, l \in AddrLists(n)}
IdleEnv == [conn0 |-> 0, sock |-> 0, gai |-> GaiSuccess,
            addrs |-> << [family |-> "AF_INET", answer |-> 0] >>]

VARIABLES
    etcProtocols,   \* the host's protocol database
    protoent,       \* static result buffer of getprotobyname
    env,            \* per call: what the host answers
    sockets,        \* kernel descriptor table: fd -> socket
    addrinfoLive,   \* calls whose getaddrinfo list is allocated and not freed
    pc,             \* per call: position in tcpdial
    tcpproto,       \* per call: NULL or the address of protoent
    conn,           \* per call: *conn
    errno,          \* per thread: errno
    ret,            \* per call: the value returned
    tcphints,       \* per call: hints handed to getaddrinfo
    tcpsockaddr,    \* per call: the resolved list
    addri,          \* per call: loop cursor, Len+1 is NULL
    attempts,       \* per call: history of connect calls
    resolutions,    \* per call: number of getaddrinfo calls
    failstep,       \* per call: the step that failed
    oserr           \* per call: OS error of the failing step

vars == << etcProtocols, protoent, env, sockets, addrinfoLive, pc, tcpproto,
           conn, errno, ret, tcphints, tcpsockaddr, addri, attempts,
           resolutions, failstep, oserr >>

PROTOENT_ADDR == 1   \* address of the static buffer

NoHints == [ai_family |-> "", ai_socktype |-> "", ai_protocol |-> 0]

InitCommon ==
    /\ etcProtocols \in {ProtocolsWithTcp, ProtocolsWithoutTcp}
    /\ protoent = [p_name |-> "", p_proto |-> 0]
    /\ sockets = << >>
    /\ addrinfoLive = {}
    /\ tcpproto = [t \in Threads |-> NULL]
    /\ conn = [t \in Threads |-> env[t].conn0]
    /\ errno = [t \in Threads |-> 0]
    /\ ret = [t \in Threads |-> 0]
    /\ tcphints = [t \in Threads |-> NoHints]
    /\ tcpsockaddr = [t \in Threads |-> << >>]
    /\ addri = [t \in Threads |-> 0]
    /\ attempts = [t \in Threads |-> << >>]
    /\ resolutions = [t \in Threads |-> 0]
    /\ failstep = [t \in Threads |-> "none"]
    /\ oserr = [t \in Threads |-> 0]

\* One call of tcpdial, by thread 1.
Init ==
    /\ \E e \in Envs(MaxCands, {0 - 2, 0}, {0, EACCES, EMFILE}) :
          env = [t \in Threads |-> IF t = 1 THEN e ELSE IdleEnv]
    /\ pc = [t \in Threads |-> IF t = 1 THEN "start" ELSE "idle"]
    /\ InitCommon

\* Every thread calls tcpdial, each with its own conn, host and port.
InitConc ==
    /\ env \in [Threads -> Envs(MaxCandsConc, {0 - 2}, {0, EACCES})]
    /\ pc = [t \in Threads |-> "start"]
    /\ InitCommon

\* ------------------------------------------------------ library, kernel
\* getprotobyname: index of the first entry of db named name, 0 if none.
GetProtoByName(db, name) ==
    IF \E i \in 1..Len(db) : db[i].p_name = name
    THEN CHOOSE i \in 1..Len(db) :
            /\ db[i].p_name = name
            /\ \A j \in 1..(i - 1) : db[j].p_name # name
    ELSE 0

\* Entries getprotobyname parses into its static buffer while it searches.
Scanned(db, name) ==
    LET k == GetProtoByName(db, name)
    IN  {db[i] : i \in 1..(IF k = 0 THEN Len(db) ELSE k)}

\* The values a read of tcpproto->p_proto by t can yield.  The buffer is
\* static storage of the C library: while another thread is inside
\* getprotobyname the read races with its writes.
ReadProto(t) ==
    IF \E u \in Threads \ {t} : pc[u] = "lookup"
    THEN {protoent.p_proto} \cup {e.p_proto : e \in Scanned(etcProtocols, "tcp")}
    ELSE {protoent.p_proto}

\* socket(AF_INET, SOCK_STREAM, proto): 0 or the error.
SocketResult(proto, e) ==
    IF proto \notin {0, IPPROTO_TCP} THEN EPROTONOSUPPORT ELSE e.sock

LowestFreeFd == 3 + Cardinality(DOMAIN sockets)

FamilyMatches(hf, f) == hf = "AF_UNSPEC" \/ hf = f

\* getaddrinfo(host, port, &hints, &res): return code, errno it leaves on
\* EAI_SYSTEM, and the list.
GetAddrInfo(h, e) ==
    LET l == SelectSeq(e.addrs, LAMBDA a : FamilyMatches(h.ai_family, a.family))
    IN  IF h.ai_protocol \notin {0, IPPROTO_TCP}
        THEN [rc |-> EAI_SOCKTYPE, syserr |-> 0, list |-> << >>]
        ELSE IF e.gai.rc # 0
        THEN [rc |-> e.gai.rc, syserr |-> e.gai.syserr, list |-> << >>]
        ELSE IF l = << >>
        THEN [rc |-> EAI_NONAME, syserr |-> 0, list |-> << >>]
        ELSE [rc |-> 0, syserr |-> 0, list |-> l]

\* connect(fd, a): 0 or the error.
ConnectResult(fd, a) ==
    IF fd \notin DOMAIN sockets THEN EBADF
    ELSE IF sockets[fd].state = "connected" THEN EISCONN
    ELSE IF sockets[fd].family # a.family THEN EAFNOSUPPORT
    ELSE a.answer

\* -------------------------------------------------------------- tcpdial
ProtoMissing(p) == p = NULL

SocketFailedMut(c) == FALSE
SocketFailed(c) == c = 0 - 1

MapGaiErrorMut(e) ==
    CASE e = EAI_AGAIN -> ENETDOWN
      [] e = EAI_FAIL -> ENETUNREACH
      [] e = EAI_MEMORY -> ENOMEM
      [] e \in {EAI_NONAME, EAI_SERVICE} -> EINVAL
      [] OTHER -> e
\* switch(errno) of the resolution failure path
MapGaiError(e) ==
    CASE e = EAI_AGAIN -> ENETUNREACH
      [] e = EAI_FAIL -> ENETDOWN
      [] e = EAI_MEMORY -> ENOMEM
      [] e \in {EAI_NONAME, EAI_SERVICE} -> EINVAL
      [] OTHER -> e

LoopBreaksMut(retcon) == TRUE
\* body of the for loop: continue on failure, break on success
LoopBreaks(retcon) == retcon = 0

LoopExitErrnoMut(e) == e
\* errno after the loop ran off the end of the list
LoopExitErrno(e) == ENOTCONN

Return(t, v) ==
    /\ ret' = [ret EXCEPT ![t] = v]
    /\ pc' = [pc EXCEPT ![t] = "done"]

\* line 90, the call
TcpGetProtoCall(t) ==
    /\ pc[t] = "start"
    /\ pc' = [pc EXCEPT ![t] = "lookup"]
    /\ UNCHANGED << etcProtocols, protoent, env, sockets, addrinfoLive,
                    tcpproto, conn, errno, ret, tcphints, tcpsockaddr, addri,
                    attempts, resolutions, failstep, oserr >>

\* lines 90-94, the return of getprotobyname and the NULL test
TcpGetProtoReturn(t) ==
    /\ pc[t] = "lookup"
    /\ LET k == GetProtoByName(etcProtocols, "tcp")
           p == IF k = 0 THEN NULL ELSE PROTOENT_ADDR
       IN  /\ protoent' = etcProtocols[IF k = 0 THEN Len(etcProtocols) ELSE k]
           /\ tcpproto' = [tcpproto EXCEPT ![t] = p]
           /\ IF ProtoMissing(p)
              THEN /\ errno' = [errno EXCEPT ![t] = ENOPROTOOPT]
                   /\ Return(t, ENOPROTOOPT)
                   /\ failstep' = [failstep EXCEPT ![t] = "proto"]
              ELSE /\ pc' = [pc EXCEPT ![t] = "socket"]
                   /\ UNCHANGED << errno, ret, failstep >>
    /\ UNCHANGED << etcProtocols, env, sockets, addrinfoLive, conn, tcphints,
                    tcpsockaddr, addri, attempts, resolutions, oserr >>

\* lines 97-100
TcpSocket(t) ==
    /\ pc[t] = "socket"
    /\ \E proto \in ReadProto(t) :
        LET r == SocketResult(proto, env[t])
            fd == IF r = 0 THEN LowestFreeFd ELSE 0 - 1
            e == IF r = 0 THEN errno[t] ELSE r
        IN  /\ sockets' = IF r = 0
                          THEN sockets @@ (fd :> [family |-> "AF_INET",
                                                  state |-> "open",
                                                  peer |-> 0, owner |-> t])
                          ELSE sockets
            /\ conn' = [conn EXCEPT ![t] = fd]
            /\ errno' = [errno EXCEPT ![t] = e]
            /\ IF SocketFailed(fd)
               THEN /\ Return(t, e)
                    /\ failstep' = [failstep EXCEPT ![t] = "socket"]
                    /\ oserr' = [oserr EXCEPT ![t] = r]
               ELSE /\ pc' = [pc EXCEPT ![t] = "resolve"]
                    /\ UNCHANGED << ret, failstep, oserr >>
    /\ UNCHANGED << etcProtocols, protoent, env, addrinfoLive, tcpproto,
                    tcphints, tcpsockaddr, addri, attempts, resolutions >>

\* lines 103-128
TcpResolve(t) ==
    /\ pc[t] = "resolve"
    /\ \E proto \in ReadProto(t) :
        LET h == [ai_family |-> "AF_UNSPEC", ai_socktype |-> "SOCK_STREAM",
                  ai_protocol |-> proto]
            g == GetAddrInfo(h, env[t])
            \* errno = getaddrinfo(...): the return code replaces whatever
            \* getaddrinfo left in errno
            e == g.rc
        IN  /\ tcphints' = [tcphints EXCEPT ![t] = h]
            /\ resolutions' = [resolutions EXCEPT ![t] = @ + 1]
            /\ IF e # 0
               THEN /\ errno' = [errno EXCEPT ![t] = MapGaiError(e)]
                    /\ Return(t, MapGaiError(e))
                    /\ failstep' = [failstep EXCEPT ![t] = "resolve"]
                    /\ oserr' = [oserr EXCEPT ![t] = g.syserr]
                    /\ UNCHANGED << tcpsockaddr, addri, addrinfoLive >>
               ELSE /\ errno' = [errno EXCEPT ![t] = 0]
                    /\ tcpsockaddr' = [tcpsockaddr EXCEPT ![t] = g.list]
                    /\ addrinfoLive' = addrinfoLive \cup {t}
                    /\ addri' = [addri EXCEPT ![t] = 1]
                    /\ pc' = [pc EXCEPT ![t] = "connect"]
                    /\ UNCHANGED << ret, failstep, oserr >>
    /\ UNCHANGED << etcProtocols, protoent, env, sockets, tcpproto, conn,
                    attempts >>

\* lines 132-146: one iteration of the loop and, when the loop ends with
\* it, the test after the loop and the return
TcpConnect(t) ==
    /\ pc[t] = "connect"
    /\ LET i == addri[t]
           a == tcpsockaddr[t][i]
           retcon == ConnectResult(conn[t], a)
           e == IF retcon = 0 THEN errno[t] ELSE retcon
           atNull == i + 1 > Len(tcpsockaddr[t])
       IN  /\ attempts' = [attempts EXCEPT ![t] =
                    Append(@, [cand |-> i, fd |-> conn[t], retcon |-> retcon])]
           /\ sockets' = IF retcon = 0
                         THEN [sockets EXCEPT ![conn[t]].state = "connected",
                                              ![conn[t]].peer = i]
                         ELSE sockets
           /\ IF LoopBreaks(retcon)
              THEN /\ errno' = [errno EXCEPT ![t] = e]
                   /\ Return(t, 0)
                   /\ UNCHANGED << addri, failstep, oserr >>
              ELSE /\ addri' = [addri EXCEPT ![t] = i + 1]
                   /\ IF atNull
                      THEN /\ errno' = [errno EXCEPT ![t] = LoopExitErrno(e)]
                           /\ Return(t, LoopExitErrno(e))
                           /\ failstep' = [failstep EXCEPT ![t] = "connect"]
                           /\ oserr' = [oserr EXCEPT ![t] = retcon]
                      ELSE /\ errno' = [errno EXCEPT ![t] = e]
                           /\ UNCHANGED << ret, pc, failstep, oserr >>
    /\ UNCHANGED << etcProtocols, protoent, env, addrinfoLive, tcpproto, conn,
                    tcphints, tcpsockaddr, resolutions >>

Next ==
    \E t \in Threads :
        \/ TcpGetProtoCall(t)
        \/ TcpGetProtoReturn(t)
        \/ TcpSocket(t)
        \/ TcpResolve(t)
        \/ TcpConnect(t)

Spec == Init /\ [][Next]_vars
SpecConc == InitConc /\ [][Next]_vars

\* ------------------------------------------------------------ properties
Done(t) == pc[t] = "done"
OwnSockets(t) == {fd \in DOMAIN sockets : sockets[fd].owner = t}
\* the call got past resolution and into the connect loop
Resolved(t) == t \in addrinfoLive
Connected(fd) == fd \in DOMAIN sockets /\ sockets[fd].state = "connected"
InOrder(log) == \A k \in 1..Len(log) : log[k].cand = k
AllFailed(log) == \A k \in 1..Len(log) : log[k].retcon # 0

\* C1: once resolution succeeded, tcpdial returns 0 exactly when a connect
\* attempt succeeded; then the attempts are candidates 1..n in order, each
\* once, all but the last failed, the socket in *conn is connected to
\* candidate n and no later candidate was tried; when it returns an error
\* every candidate was tried and failed.
C1_FirstSuccessWins ==
    \A t \in Threads : (Done(t) /\ Resolved(t)) =>
        LET log == attempts[t]
            n == Len(log)
        IN  /\ (ret[t] = 0) <=> (\E k \in 1..n : log[k].retcon = 0)
            /\ InOrder(log)
            /\ AllFailed(SubSeq(log, 1, n - 1))
            /\ ret[t] = 0 =>
                  /\ n >= 1 /\ log[n].retcon = 0
                  /\ Connected(conn[t]) /\ sockets[conn[t]].peer = n
            /\ ret[t] # 0 => n = Len(tcpsockaddr[t])

\* only the last of several candidates accepts the connection
C1_Witness ==
    \E t \in Threads :
        /\ Done(t) /\ ret[t] = 0
        /\ Len(attempts[t]) >= 2
        /\ Len(attempts[t]) = Len(tcpsockaddr[t])
        /\ sockets[conn[t]].peer = Len(tcpsockaddr[t])

\* C2: after a failing return no socket created by the call is still open.
C2_NoSocketLeakOnFailure ==
    \A t \in Threads : (Done(t) /\ ret[t] # 0) =>
        \A fd \in OwnSockets(t) : sockets[fd].state = "closed"

\* C3: after a return of 0 the call owns exactly one socket, open and
\* connected, and its resolved address list has been freed.
C3_ListReleasedOnSuccess ==
    \A t \in Threads : (Done(t) /\ ret[t] = 0) =>
        /\ OwnSockets(t) = {conn[t]} /\ Connected(conn[t])
        /\ t \notin addrinfoLive

\* C4: resolution is asked for any address family, and whenever the list
\* holds a listening address of either family tcpdial returns 0 with the
\* socket connected to a listening candidate.
C4_BothFamilies ==
    \A t \in Threads : (Done(t) /\ Resolved(t)) =>
        /\ tcphints[t].ai_family = "AF_UNSPEC"
        /\ (\E i \in 1..Len(tcpsockaddr[t]) : Listening(tcpsockaddr[t][i])) =>
              /\ ret[t] = 0
              /\ Connected(conn[t])
              /\ Listening(tcpsockaddr[t][sockets[conn[t]].peer])

\* C5: when resolution succeeded and every connect attempt failed, each
\* candidate was tried once, in order, and tcpdial returns ENOTCONN with
\* errno ENOTCONN whatever the errors of the attempts were.
C5_ExhaustedIsNotConn ==
    \A t \in Threads : (Done(t) /\ Resolved(t) /\ AllFailed(attempts[t])) =>
        /\ Len(attempts[t]) = Len(tcpsockaddr[t])
        /\ InOrder(attempts[t])
        /\ ret[t] = ENOTCONN
        /\ errno[t] = ENOTCONN

\* several candidates refused with different errors
C5_Witness ==
    \E t \in Threads :
        /\ Done(t) /\ ret[t] = ENOTCONN
        /\ Len(attempts[t]) >= 2
        /\ attempts[t][1].retcon # attempts[t][2].retcon

\* C6: when resolution fails no connect is attempted, resolution ran once,
\* and the value returned is the resolver code mapped: EAI_AGAIN to
\* ENETUNREACH, EAI_FAIL to ENETDOWN, EAI_MEMORY to ENOMEM, EAI_NONAME and
\* EAI_SERVICE to EINVAL.
C6_ResolverMapping ==
    \A t \in Threads : (Done(t) /\ failstep[t] = "resolve") =>
        LET rc == env[t].gai.rc
        IN  /\ attempts[t] = << >>
            /\ resolutions[t] = 1
            /\ rc = EAI_AGAIN => ret[t] = ENETUNREACH
            /\ rc = EAI_FAIL => ret[t] = ENETDOWN
            /\ rc = EAI_MEMORY => ret[t] = ENOMEM
            /\ rc \in {EAI_NONAME, EAI_SERVICE} => ret[t] = EINVAL

C6_Witness ==
    \E t \in Threads :
        /\ Done(t) /\ failstep[t] = "resolve"
        /\ env[t].gai.rc = EAI_AGAIN /\ ret[t] = ENETUNREACH

\* C7: a failure of socket creation, a resolution failure with a system
\* error (EAI_SYSTEM), and a failing connect are each reported with the OS
\* error code of the failing step, as return value and in errno.
C7_OsErrorVerbatim ==
    \A t \in Threads : Done(t) =>
        /\ failstep[t] = "socket" => (ret[t] = oserr[t] /\ errno[t] = oserr[t])
        /\ (failstep[t] = "resolve" /\ env[t].gai.rc = EAI_SYSTEM) =>
              (ret[t] = env[t].gai.syserr /\ errno[t] = env[t].gai.syserr)
        /\ failstep[t] = "connect" => (ret[t] = oserr[t] /\ errno[t] = oserr[t])

\* what the call of t returns, and the candidate it connects to, when it
\* runs with no other call in progress
AloneRet(t) ==
    LET e == env[t]
        h == [ai_family |-> "AF_UNSPEC", ai_socktype |-> "SOCK_STREAM",
              ai_protocol |-> IPPROTO_TCP]
        g == GetAddrInfo(h, e)
    IN  IF GetProtoByName(etcProtocols, "tcp") = 0 THEN ENOPROTOOPT
        ELSE IF e.sock # 0 THEN e.sock
        ELSE IF g.rc # 0 THEN MapGaiError(g.rc)
        ELSE IF \E i \in 1..Len(g.list) :
                    g.list[i].family = "AF_INET" /\ Listening(g.list[i])
        THEN 0 ELSE ENOTCONN
AlonePeer(t) ==
    LET l == env[t].addrs
    IN  CHOOSE i \in 1..Len(l) :
            /\ l[i].family = "AF_INET" /\ Listening(l[i])
            /\ \A j \in 1..(i - 1) : ~(l[j].family = "AF_INET" /\ Listening(l[j]))

\* a single call returns what AloneRet says
AloneIsSequential ==
    \A t \in Threads : Done(t) =>
        /\ ret[t] = AloneRet(t)
        /\ ret[t] = 0 => sockets[conn[t]].peer = AlonePeer(t)

\* C8: under every interleaving of concurrent calls each call returns the
\* value, and connects its socket to the candidate, it would alone.
C8_NoInterference ==
    \A t \in Threads : Done(t) =>
        /\ ret[t] = AloneRet(t)
        /\ AloneRet(t) = 0 => (Connected(conn[t]) /\ sockets[conn[t]].peer = AlonePeer(t))

\* C9: on every failing path the return value is non-zero and equals
\* errno; a return of 0 happens on the success path only and then *conn is
\* an open, connected socket.
C9_ReturnMatchesErrno ==
    \A t \in Threads : Done(t) =>
        /\ failstep[t] # "none" => (ret[t] # 0 /\ ret[t] = errno[t])
        /\ ret[t] # 0 => ret[t] = errno[t]
        /\ ret[t] = 0 =>
              /\ failstep[t] = "none"
              /\ Connected(conn[t]) /\ sockets[conn[t]].owner = t

C9_Witness ==
    \E t \in Threads :
        /\ Done(t) /\ failstep[t] = "socket"
        /\ ret[t] = EACCES /\ errno[t] = EACCES

\* C10: a missing protocol entry gives ENOPROTOOPT with no socket, no
\* resolution, no connect and *conn untouched; a failed socket creation is
\* followed by no resolution and no connect; a call creates at most one
\* socket, resolves only after creating it, connects only after resolving,
\* and every connect attempt is made on that one socket, which stays open.
C10_OrderedSteps ==
    \A t \in Threads :
        /\ (Done(t) /\ tcpproto[t] = NULL) =>
              /\ ret[t] = ENOPROTOOPT
              /\ OwnSockets(t) = {} /\ resolutions[t] = 0
              /\ attempts[t] = << >> /\ conn[t] = env[t].conn0
        /\ conn[t] = 0 - 1 => (resolutions[t] = 0 /\ attempts[t] = << >>)
        /\ Cardinality(OwnSockets(t)) <= 1
        /\ resolutions[t] <= 1
        /\ resolutions[t] > 0 => OwnSockets(t) = {conn[t]}
        /\ attempts[t] # << >> => resolutions[t] = 1
        /\ \A k \in 1..Len(attempts[t]) :
              /\ attempts[t][k].fd = conn[t]
              /\ OwnSockets(t) = {conn[t]}
              /\ sockets[conn[t]].state # "closed"

\* several attempts, all on the one socket of the call
C10_Witness ==
    \E t \in Threads :
        /\ Done(t) /\ Len(attempts[t]) >= 2
        /\ \A k \in 1..Len(attempts[t]) : attempts[t][k].fd = conn[t]
        /\ Cardinality(OwnSockets(t)) = 1
====
